---------------------------- MODULE Spec2Model ----------------------------
(***************************************************************************)
(* A model of the customer data-quality pipeline: the Cleaner              *)
(* (scripts/clean_data.py), the Customer schema and the standalone         *)
(* Validator (scripts/validator.py) and the Masker (scripts/mask_pii.py).  *)
(*                                                                         *)
(* A cell of a table is either NULL (pandas' NaN / NaT / None) or a text,  *)
(* written as a sequence of one-character strings, or (after a numeric or  *)
(* date coercion) a number or a date record.                               *)
(***************************************************************************)
EXTENDS Integers, Sequences, FiniteSets, TLC

VARIABLES
    raw,            \* Cleaner: the table in the input file, as read_csv parses it
    pc,             \* Cleaner: the position of clean_dataset
    df,             \* Cleaner: the DataFrame being repaired (rows keep their index)
    dtypes,         \* Cleaner: the dtype read_csv gave each column
    initial_count,  \* Cleaner: len(df) right after the read
    pos,            \* Cleaner: the number of rows the re-validation loop has taken
    cleaned_rows,   \* Cleaner: the rows re-validation accepted
    flagged_rows,   \* Cleaner: the ledger of rows re-validation rejected
    output,         \* Cleaner: the table at the destination path (NoFile: never written)
    result,         \* Cleaner: the dictionary clean_dataset returned (NoResult: none)
    mcol,       \* Masker: the column the value under test belongs to
    mval,       \* Masker: the value of the cell before masking
    once,       \* Masker: the cell after the column transform was applied once
    twice,      \* Masker: the cell after the transform was applied to its own output
    mpc,        \* Masker: "in" | "once" | "twice"
    vfile,          \* Validator: the table in the file validate_dataset is given
    vpc,            \* Validator: the position of validate_dataset
    vdf,            \* Validator: the DataFrame it reads
    vdtypes,        \* Validator: the dtype read_csv gave each column
    vpos,           \* Validator: the number of rows the loop has taken
    seen_ids,       \* Validator: the customer_id values met so far
    failed_rows,    \* Validator: the failure records, in row order
    vresult,        \* Validator: the dictionary validate_dataset returned
    dfile,          \* Detector: the table in the file the DataFrame is read from
    ddf,            \* Detector: the DataFrame detect_pii is given
    dpc,            \* Detector: the position of detect_pii
    dresult,        \* Detector: the dictionary detect_pii returned
    ppc,            \* Pipeline: the stage run_pipeline is at
    stages,         \* Pipeline: the stages entered so far, in order
    input_rows,     \* Pipeline: the number of rows the load stage counted
    overall_status, \* Pipeline: the status set after the validation stage
    pii_summary,    \* Pipeline: the summary the detection stage returned
    masked,         \* Pipeline: the table at the masked-file path
    report          \* Pipeline: the pipeline execution report

cleanVars ==
    <<raw, pc, df, dtypes, initial_count, pos, cleaned_rows, flagged_rows, output, result>>

maskVars == <<mcol, mval, once, twice, mpc>>

valVars == <<vfile, vpc, vdf, vdtypes, vpos, seen_ids, failed_rows, vresult>>

detVars == <<dfile, ddf, dpc, dresult>>

pipeVars == <<ppc, stages, input_rows, overall_status, pii_summary, masked, report>>

vars == <<cleanVars, maskVars, valVars, detVars, pipeVars>>

(***************************************************************************)
(* Text: sequences of one-character strings.                               *)
(***************************************************************************)
\* the null cell: a one-element tuple that is no text, since its element is not a
\* single character
NULL == <<"NaN">>

LowerSeq ==
    <<"a","b","c","d","e","f","g","h","i","j","k","l","m",
      "n","o","p","q","r","s","t","u","v","w","x","y","z">>

UpperSeq ==
    <<"A","B","C","D","E","F","G","H","I","J","K","L","M",
      "N","O","P","Q","R","S","T","U","V","W","X","Y","Z">>

DigitSeq == <<"0","1","2","3","4","5","6","7","8","9">>

Range(s) == { s[i] : i \in DOMAIN s }

Lower == Range(LowerSeq)
Upper == Range(UpperSeq)
Digit == Range(DigitSeq)

\* the first position of character c in text s at or after position i, 0 if none
RECURSIVE FindFrom(_, _, _)
FindFrom(s, c, i) ==
    IF i > Len(s) THEN 0
    ELSE IF s[i] = c THEN i
    ELSE FindFrom(s, c, i + 1)

Find(s, c) == FindFrom(s, c, 1)

\* s[a:b] of Python on 1-based inclusive positions, empty when out of range
Slice(s, a, b) ==
    IF a > b \/ a > Len(s) THEN <<>>
    ELSE SubSeq(s, a, IF b > Len(s) THEN Len(s) ELSE b)

\* str.split(): the maximal runs of non-blank characters, in order
RECURSIVE SplitBlank(_)
SplitBlank(s) ==
    IF s = <<>> THEN <<>>
    ELSE IF Head(s) = " " THEN SplitBlank(Tail(s))
    ELSE LET sp == Find(s, " ")
         IN  IF sp = 0 THEN <<s>>
             ELSE <<SubSeq(s, 1, sp - 1)>> \o SplitBlank(Slice(s, sp + 1, Len(s)))

\* str.split(sep): the pieces between occurrences of sep, empty pieces kept
RECURSIVE SplitOn(_, _)
SplitOn(s, sep) ==
    LET p == Find(s, sep)
    IN  IF p = 0 THEN <<s>>
        ELSE <<Slice(s, 1, p - 1)>> \o SplitOn(Slice(s, p + 1, Len(s)), sep)

\* " ".join(parts)
RECURSIVE JoinBlank(_)
JoinBlank(parts) ==
    IF parts = <<>> THEN <<>>
    ELSE IF Len(parts) = 1 THEN parts[1]
    ELSE parts[1] \o <<" ">> \o JoinBlank(Tail(parts))

\* re.match of a pattern made of \d and literal characters: the pattern is a
\* sequence whose element "d" stands for \d; the match is anchored at the start
\* of the text only, so trailing characters are allowed
MatchPrefix(s, pat) ==
    /\ Len(s) >= Len(pat)
    /\ \A i \in 1..Len(pat) :
          IF pat[i] = "d" THEN s[i] \in Digit ELSE s[i] = pat[i]

Stars == <<"*","*","*">>

\* sample cells
JohnDoe == <<"J","o","h","n"," ","D","o","e">>

JohnDoeEmail ==
    <<"j","o","h","n",".","d","o","e","@","g","m","a","i","l",".","c","o","m">>

Phone5551234567 == <<"5","5","5","-","1","2","3","-","4","5","6","7">>

Dob19850315 == <<"1","9","8","5","-","0","3","-","1","5">>

MainStreet == <<"1","2","3"," ","M","a","i","n"," ","S","t","r","e","e","t">>

(***************************************************************************)
(* The Cleaner's placeholders (clean_data.py) as the Masker compares them. *)
(***************************************************************************)
Unknown == <<"U","n","k","n","o","w","n">>

NoEmail ==
    <<"n","o","e","m","a","i","l","@","p","l","a","c","e","h","o","l","d","e","r",
      ".","c","o","m">>

ZeroPhone == <<"0","0","0","-","0","0","0","-","0","0","0","0">>

AddressNotProvided ==
    <<"A","d","d","r","e","s","s"," ","N","o","t"," ",
      "P","r","o","v","i","d","e","d">>

MaskedAddress ==
    <<"[","M","A","S","K","E","D"," ","A","D","D","R","E","S","S","]">>

PhonePattern == <<"d","d","d","-","d","d","d","-","d","d","d","d">>

DobPattern == <<"d","d","d","d","-","d","d","-","d","d">>

(***************************************************************************)
(* The Masker's column transforms.                                         *)
(***************************************************************************)
\* mask_name with the token mask written after the whole token
mask_name_keeps_token(name) ==
    IF name = NULL \/ name = <<>> \/ name = Unknown THEN name
    ELSE LET parts == SplitBlank(name)
         IN  JoinBlank([i \in 1..Len(parts) |-> parts[i] \o Stars])

\* mask_name without the placeholder test
mask_name_no_placeholder(name) ==
    IF name = NULL \/ name = <<>> THEN name
    ELSE LET parts == SplitBlank(name)
         IN  JoinBlank([i \in 1..Len(parts) |-> <<parts[i][1]>> \o Stars])

mask_name(name) ==
    IF name = NULL \/ name = <<>> \/ name = Unknown THEN name
    ELSE LET parts == SplitBlank(name)
         IN  JoinBlank([i \in 1..Len(parts) |-> <<parts[i][1]>> \o Stars])

mask_email(email) ==
    IF email = NULL \/ email = <<>> \/ email = NoEmail THEN email
    ELSE LET at == Find(email, "@")
         IN  IF at > 1
             THEN <<email[1]>> \o Stars \o <<"@">> \o Slice(email, at + 1, Len(email))
             ELSE email

mask_phone(phone) ==
    IF phone = NULL \/ phone = <<>> \/ phone = ZeroPhone THEN phone
    ELSE IF MatchPrefix(phone, PhonePattern)
         THEN <<"*","*","*","-","*","*","*","-">> \o SplitOn(phone, "-")[3]
         ELSE phone

mask_address(address) ==
    IF address = NULL \/ address = <<>> \/ address = AddressNotProvided THEN address
    ELSE MaskedAddress

mask_dob(dob) ==
    IF dob = NULL THEN dob
    ELSE IF MatchPrefix(dob, DobPattern)
         THEN Slice(dob, 1, 4) \o <<"-","*","*","-","*","*">>
         ELSE dob

\* the transform mask_dataset applies to a column
MaskColumn(col, v) ==
    CASE col = "first_name"    -> mask_name(v)
      [] col = "last_name"     -> mask_name(v)
      [] col = "email"         -> mask_email(v)
      [] col = "phone"         -> mask_phone(v)
      [] col = "address"       -> mask_address(v)
      [] col = "date_of_birth" -> mask_dob(v)

MaskedColumns ==
    {"first_name", "last_name", "email", "phone", "address", "date_of_birth"}

\* the value the Cleaner fills a missing cell with; the Masker's own
\* pass-through value for date_of_birth is the null
PlaceholderOf(col) ==
    CASE col = "first_name"    -> Unknown
      [] col = "last_name"     -> Unknown
      [] col = "email"         -> NoEmail
      [] col = "phone"         -> ZeroPhone
      [] col = "address"       -> AddressNotProvided
      [] col = "date_of_birth" -> NULL

(***************************************************************************)
(* Text, number and date conversions the Cleaner and the schema use.       *)
(***************************************************************************)
\* str.strip(): the text without its leading and trailing blanks
RECURSIVE LStrip(_)
LStrip(s) ==
    IF s # <<>> /\ Head(s) = " " THEN LStrip(Tail(s)) ELSE s

RECURSIVE RStrip(_)
RStrip(s) ==
    IF s # <<>> /\ s[Len(s)] = " " THEN RStrip(SubSeq(s, 1, Len(s) - 1)) ELSE s

Strip(s) == RStrip(LStrip(s))

IsLetter(c) == c \in Lower \/ c \in Upper

ToLowerChar(c) == IF c \in Upper THEN LowerSeq[Find(UpperSeq, c)] ELSE c

ToUpperChar(c) == IF c \in Lower THEN UpperSeq[Find(LowerSeq, c)] ELSE c

\* str.lower()
LowerText(s) == [i \in 1..Len(s) |-> ToLowerChar(s[i])]

\* str.title(): a letter that follows a non-letter (or starts the text) is
\* upper-cased, every other letter is lower-cased
TitleText(s) ==
    [i \in 1..Len(s) |->
        IF i = 1 \/ ~IsLetter(s[i - 1]) THEN ToUpperChar(s[i]) ELSE ToLowerChar(s[i])]

IsDigitChar(c) == c \in Digit

\* re.sub(r'\D', "", s): the digits of the text, in order
DigitsOf(s) == SelectSeq(s, IsDigitChar)

AllDigits(s) == s # <<>> /\ \A i \in 1..Len(s) : s[i] \in Digit

\* the value of a text of digits
RECURSIVE DigitsValue(_)
DigitsValue(s) ==
    IF s = <<>> THEN 0
    ELSE 10 * DigitsValue(SubSeq(s, 1, Len(s) - 1)) + (Find(DigitSeq, s[Len(s)]) - 1)

\* A finite number is <<sign, whole, frac>>: the sign "+" or "-", the digits of
\* the integer part without leading zeros and the digits of the fraction without
\* trailing zeros (a zero is <<"+", <<"0">>, <<>>>>); numbers of any size are
\* written this way, as int64 and float64 hold the ten digits of a phone number.
\* The infinite float is Inf.
Inf == <<"inf">>

RECURSIVE DropLeadingZeros(_)
DropLeadingZeros(s) ==
    IF Len(s) > 1 /\ Head(s) = "0" THEN DropLeadingZeros(Tail(s)) ELSE s

RECURSIVE DropTrailingZeros(_)
DropTrailingZeros(s) ==
    IF s # <<>> /\ s[Len(s)] = "0" THEN DropTrailingZeros(SubSeq(s, 1, Len(s) - 1))
    ELSE s

Number(sign, whole, frac) ==
    LET w == DropLeadingZeros(whole)
        f == DropTrailingZeros(frac)
    IN  <<IF w = <<"0">> /\ f = <<>> THEN "+" ELSE sign, w, f>>

IsFinite(x) == x # NULL /\ x # Inf

IsNegative(x) == x[1] = "-"

IsIntegral(x) == x[3] = <<>>

IsZeroNumber(x) == x[2] = <<"0">> /\ x[3] = <<>>

\* x > n for a number x that is not negative and a natural n below 10^9
ExceedsNat(x, n) ==
    IF Len(x[2]) > 9 THEN TRUE
    ELSE DigitsValue(x[2]) > n \/ (DigitsValue(x[2]) = n /\ x[3] # <<>>)

\* The numeric literals read here: an optional sign, digits, an optional
\* fraction of digits, and "inf". Anything else is not a number (NULL).
ParseUnsigned(s, sign) ==
    LET dot == Find(s, ".")
    IN  IF dot = 0
        THEN IF AllDigits(s) THEN Number(sign, s, <<>>) ELSE NULL
        ELSE LET whole == Slice(s, 1, dot - 1)
                 frac  == Slice(s, dot + 1, Len(s))
             IN  IF AllDigits(whole) /\ AllDigits(frac)
                 THEN Number(sign, whole, frac)
                 ELSE NULL

ParseNumber(s) ==
    IF s = <<"i","n","f">> THEN Inf
    ELSE IF s # <<>> /\ Head(s) = "-" THEN ParseUnsigned(Tail(s), "-")
    ELSE IF s # <<>> /\ Head(s) = "+" THEN ParseUnsigned(Tail(s), "+")
    ELSE ParseUnsigned(s, "+")

IsIntegerLiteral(s) ==
    LET x == ParseNumber(s) IN IsFinite(x) /\ Find(s, ".") = 0

\* pd.to_numeric(errors="coerce") on one cell
to_numeric(cell) == IF cell = NULL THEN NULL ELSE ParseNumber(cell)

\* int(x) of a finite float: truncation towards zero
IntOf(x) == Number(x[1], x[2], <<>>)

\* str(n) of a natural number below 2^31
RECURSIVE NatText(_)
NatText(n) ==
    IF n < 10 THEN <<DigitSeq[n + 1]>> ELSE NatText(n \div 10) \o <<DigitSeq[(n % 10) + 1]>>

SignText(x) == IF IsNegative(x) THEN <<"-">> ELSE <<>>

\* str(x) of a float: the integer part, a point and the fraction ("42.0")
FloatText(x) ==
    IF x = Inf THEN <<"i","n","f">>
    ELSE SignText(x) \o x[2] \o <<".">> \o (IF x[3] = <<>> THEN <<"0">> ELSE x[3])

\* str(n) of an int
IntText(x) == SignText(x) \o x[2]

\* A date is <<"date", year, month, day>>.
IsLeap(y) == (y % 4 = 0 /\ y % 100 # 0) \/ y % 400 = 0

DaysIn(y, m) ==
    IF m = 2 THEN (IF IsLeap(y) THEN 29 ELSE 28)
    ELSE IF m \in {4, 6, 9, 11} THEN 30 ELSE 31

\* pd.to_datetime(errors="coerce") on one cell: the ISO form YYYY-MM-DD of a
\* calendar date is read, anything else here is not a date (NaT)
to_datetime(cell) ==
    IF cell = NULL THEN NULL
    ELSE IF Len(cell) = Len(DobPattern) /\ MatchPrefix(cell, DobPattern)
         THEN LET y == DigitsValue(Slice(cell, 1, 4))
                  m == DigitsValue(Slice(cell, 6, 7))
                  d == DigitsValue(Slice(cell, 9, 10))
              IN  IF m \in 1..12 /\ d \in 1..DaysIn(y, m)
                  THEN <<"date", y, m, d>>
                  ELSE NULL
         ELSE NULL

Pad(n, w) ==
    LET t == NatText(n) IN [i \in 1..(w - Len(t)) |-> "0"] \o t

\* strftime('%Y-%m-%d')
DateText(v) == Pad(v[2], 4) \o <<"-">> \o Pad(v[3], 2) \o <<"-">> \o Pad(v[4], 2)

(***************************************************************************)
(* The Customer schema (validator.py).  A value handed to Customer is a    *)
(* Python value: a str, a number (int or float), the float NaN or a date.  *)
(***************************************************************************)
PyStr(s) == [t |-> "str", s |-> s]
PyNum(x) == [t |-> "num", x |-> x]
PyDate(d) == [t |-> "date", d |-> d]
PyNaN == [t |-> "nan"]

NameMin == 2
NameMax == 50
PhoneMin == 7
PhoneMax == 20
AddressMin == 10
AddressMax == 200
IncomeMax == 10000000

AccountStatuses == { <<"a","c","t","i","v","e">>, <<"i","n","a","c","t","i","v","e">>, <<"s","u","s","p","e","n","d","e","d">> }

\* customer_id: int, then id_must_be_positive.  An int, a float without a
\* fraction and a text of an integer are taken as the int.
CustomerIdOk(v) ==
    LET x == IF v.t = "num" THEN v.x
             ELSE IF v.t = "str" THEN ParseNumber(Strip(v.s))
             ELSE NULL
    IN  IsFinite(x) /\ IsIntegral(x) /\ ~IsNegative(x) /\ ~IsZeroNumber(x)

\* first_name, last_name: str, then name_rules
name_rules(s) ==
    /\ s # <<>>
    /\ Len(s) >= NameMin /\ Len(s) <= NameMax
    /\ \A i \in 1..Len(s) : IsLetter(s[i])

NameOk(v) == v.t = "str" /\ name_rules(v.s)

\* email: EmailStr.  The shape the e-mail validation requires: one "@", a
\* local part and a domain without blanks, and a domain of at least two
\* non-empty labels separated by dots.
EmailShape(s) ==
    LET at == Find(s, "@")
        local == Slice(s, 1, at - 1)
        domain == Slice(s, at + 1, Len(s))
        labels == SplitOn(domain, ".")
    IN  /\ at > 1
        /\ Find(domain, "@") = 0
        /\ Find(s, " ") = 0
        /\ Len(labels) >= 2
        /\ \A i \in 1..Len(labels) : labels[i] # <<>>

EmailOk(v) == v.t = "str" /\ EmailShape(v.s)

\* phone: str, then phone_length
phone_length(s) == ~(Len(s) < PhoneMin \/ Len(s) > PhoneMax)

PhoneOk(v) == v.t = "str" /\ phone_length(v.s)

\* address: str, then address_rules
address_rules(s) == ~(s = <<>> \/ Len(s) < AddressMin \/ Len(s) > AddressMax)

AddressOk(v) == v.t = "str" /\ address_rules(v.s)

\* income: float, then income_rules; the comparisons of a NaN are both false
income_rules(x) ==
    IF x = NULL THEN TRUE
    ELSE IF x = Inf THEN FALSE
    ELSE ~IsNegative(x) /\ ~ExceedsNat(x, IncomeMax)

IncomeOk(v) ==
    CASE v.t = "num" -> income_rules(v.x)
      [] v.t = "nan" -> income_rules(NULL)
      [] v.t = "str" -> IF Strip(v.s) = <<"n","a","n">> THEN income_rules(NULL)
                        ELSE LET x == ParseNumber(Strip(v.s))
                             IN  x # NULL /\ income_rules(x)
      [] OTHER -> FALSE

\* account_status: Literal["active", "inactive", "suspended"]
StatusOk(v) == v.t = "str" /\ v.s \in AccountStatuses

\* date_of_birth, created_date: date; a text in the ISO form is read as a date
DateOk(v) ==
    CASE v.t = "date" -> TRUE
      [] v.t = "str" -> to_datetime(v.s) # NULL
      [] OTHER -> FALSE

Columns ==
    <<"customer_id", "first_name", "last_name", "email", "phone",
      "date_of_birth", "address", "income", "account_status", "created_date">>

\* Customer(**row_dict): the fields whose rule rejects the row (the
\* ValidationError names them); the row is accepted when there is none
CustomerErrors(rd) ==
    { c \in Range(Columns) :
        ~ CASE c = "customer_id"    -> CustomerIdOk(rd[c])
            [] c = "first_name"     -> NameOk(rd[c])
            [] c = "last_name"      -> NameOk(rd[c])
            [] c = "email"          -> EmailOk(rd[c])
            [] c = "phone"          -> PhoneOk(rd[c])
            [] c = "date_of_birth"  -> DateOk(rd[c])
            [] c = "address"        -> AddressOk(rd[c])
            [] c = "income"         -> IncomeOk(rd[c])
            [] c = "account_status" -> StatusOk(rd[c])
            [] c = "created_date"   -> DateOk(rd[c]) }

Customer(rd) == CustomerErrors(rd) = {}

(***************************************************************************)
(* Tables.  A file is a sequence of rows of texts; a DataFrame is a        *)
(* sequence of [index, row] whose cells are NULL, a text (object column)   *)
(* or a number (int64 / float64 column).                                   *)
(***************************************************************************)
ColSet == Range(Columns)

\* the texts read_csv takes as missing
NaValues == { <<>>, <<"n","a","n">>, <<"N","a","N">>, <<"N","A">>, <<"N","/","A">>, <<"N","U","L","L">>, <<"n","u","l","l">>, <<"N","o","n","e">> }

\* the dtype read_csv infers for a column of the file
ColumnKind(file, c) ==
    LET cells == { file[i][c] : i \in 1..Len(file) }
        given == cells \ NaValues
    IN  IF \E s \in given : ParseNumber(s) = NULL THEN "object"
        ELSE IF Len(file) = 0 THEN "object"
        ELSE IF given # cells THEN "float64"
        ELSE IF \A s \in given : IsIntegerLiteral(s) THEN "int64"
        ELSE "float64"

ReadCsvCell(text, kind) ==
    IF text \in NaValues THEN NULL
    ELSE IF kind = "object" THEN text
    ELSE ParseNumber(text)

\* pd.read_csv(path): the DataFrame, rows indexed from 0
read_csv(file) ==
    [i \in 1..Len(file) |->
        [index |-> i - 1,
         row |-> [c \in ColSet |-> ReadCsvCell(file[i][c], ColumnKind(file, c))]]]

\* str(value) of a cell of a column of the given dtype
PyText(cell, kind) ==
    IF kind = "object" THEN cell
    ELSE IF kind = "int64" THEN IntText(cell)
    ELSE FloatText(cell)

\* df[col].astype(str).str.strip() on the object columns: a NaN of an object
\* column becomes the text "nan"
TrimCell(cell, kind) ==
    IF kind # "object" THEN cell
    ELSE IF cell = NULL THEN <<"n","a","n">>
    ELSE Strip(cell)

(***************************************************************************)
(* The Cleaner's repairs (clean_dataset, lines 70-159), cell by cell.      *)
(***************************************************************************)
\* line 72: the row is kept when customer_id is not null, not "" and not "nan"
HasCustomerId(r, kinds) ==
    LET v == r.row["customer_id"]
    IN  /\ v # NULL
        /\ (kinds["customer_id"] = "object" => (v # <<>> /\ v # <<"n","a","n">>))

\* pd.to_numeric(df[col], errors="coerce") on a cell of a column of dtype kind
CoerceNumericCell(cell, kind) ==
    IF kind = "object" THEN to_numeric(cell) ELSE cell

\* the dtype pd.to_numeric gives the column: int64 when every cell is an
\* integer, float64 otherwise
NumericKind(frame, c) ==
    IF \A i \in 1..Len(frame) :
          LET x == frame[i].row[c] IN IsFinite(x) /\ IsIntegral(x)
    THEN "int64"
    ELSE "float64"

\* line 85 keeping every row
HasNumericId_keeps_all(r) == TRUE

\* line 85: the row is kept when the coerced customer_id is not null
HasNumericId(r) == r.row["customer_id"] # NULL

\* replace(["", "nan"], placeholder) then fillna(placeholder)
FillText(cell, placeholder) ==
    IF cell = NULL \/ cell = <<>> \/ cell = <<"n","a","n">> THEN placeholder ELSE cell

\* lines 113-114: a name other than the placeholder is lower-cased, then
\* title-cased
NormalizeName(cell) ==
    IF cell # Unknown THEN TitleText(LowerText(cell)) ELSE cell

\* normalize_phone(phone); text is str(phone)
normalize_phone(cell, kind) ==
    IF cell = NULL THEN NULL
    ELSE LET digits == DigitsOf(PyText(cell, kind))
         IN  IF Len(digits) = 10
             THEN SubSeq(digits, 1, 3) \o <<"-">> \o SubSeq(digits, 4, 6)
                  \o <<"-">> \o SubSeq(digits, 7, 10)
             ELSE NULL

FillNull(cell, placeholder) == IF cell = NULL THEN placeholder ELSE cell

\* 0.0
Zero == <<"+", <<"0">>, <<>>>>

\* lines 149-150 without the fillna
FillIncome_not_filled(cell) == cell

\* lines 149-150 with a negative income replaced by 0.0 as well
FillIncome_zeroes_negative(cell) ==
    IF cell = NULL \/ (cell # Inf /\ IsNegative(cell)) THEN Zero ELSE cell

\* lines 149-150: df["income"].fillna(0.0)
FillIncome(cell) == FillNull(cell, Zero)

\* lines 118-122
RepairPhone(cell, kind) == FillNull(normalize_phone(cell, kind), ZeroPhone)

\* pd.Timestamp("1900-01-01")
PlaceholderDob == <<"date", 1900, 1, 1>>

\* pd.Timestamp.now(): the day of the run
Now == <<"date", 2026, 11, 4>>

\* pd.to_datetime on a cell of a column of dtype kind: a number is no date text
ToDatetimeCell(cell, kind) ==
    IF kind = "object" THEN to_datetime(cell) ELSE NULL

\* lines 127-137
RepairDate(cell, kind, placeholder) == FillNull(ToDatetimeCell(cell, kind), placeholder)

\* lines 155-156 with a fill value that is no account status
Inactive_not_a_status == <<"u","n","k","n","o","w","n">>

\* lines 155-156: the fill value of account_status
Inactive == <<"i","n","a","c","t","i","v","e">>

\* lines 92-159 on one row
RepairRow(row, kinds) ==
    [c \in ColSet |->
        CASE c = "customer_id"    -> row[c]
          [] c = "first_name"     -> NormalizeName(FillText(row[c], Unknown))
          [] c = "last_name"      -> NormalizeName(FillText(row[c], Unknown))
          [] c = "email"          -> FillText(row[c], NoEmail)
          [] c = "phone"          -> RepairPhone(row[c], kinds[c])
          [] c = "date_of_birth"  -> RepairDate(row[c], kinds[c], PlaceholderDob)
          [] c = "created_date"   -> RepairDate(row[c], kinds[c], Now)
          [] c = "address"        -> FillText(row[c], AddressNotProvided)
          [] c = "income"         -> FillIncome(row[c])
          [] c = "account_status" -> FillText(row[c], Inactive)]

\* lines 168-181: row_dict, the repaired row as Customer receives it; a null
\* cell is the float NaN (or NaT)
RowDict(row) ==
    [c \in ColSet |->
        IF row[c] = NULL THEN PyNaN
        ELSE CASE c = "customer_id" -> PyNum(IntOf(row[c]))
               [] c = "income"      -> PyNum(row[c])
               [] c \in {"date_of_birth", "created_date"} -> PyDate(row[c])
               [] OTHER             -> PyStr(row[c])]

\* cleaned_df.to_csv(index=False, date_format='%Y-%m-%d'): one row of the
\* file; a null cell is written as the empty text
ToCsvRow(row, kinds) ==
    [c \in ColSet |->
        IF row[c] = NULL THEN <<>>
        ELSE CASE c \in {"customer_id", "income"} -> PyText(row[c], kinds[c])
               [] c \in {"date_of_birth", "created_date"} -> DateText(row[c])
               [] OTHER -> row[c]]

\* line 204 with the accepted rows in the place of the gated frame
deleted_count_minus_cleaned(initial, frame, cleaned) == initial - Len(cleaned)

\* line 204: deleted_count = initial_count - len(df)
deleted_count_of(initial, frame, cleaned) == initial - Len(frame)

NoFile == [k |-> "none"]

NoResult == [k |-> "none"]

(***************************************************************************)
(* The input files: tables of at most MaxRows rows.  A row is one of a few *)
(* context rows (clean, repairable, deleted, flagged) or a wide row: the   *)
(* clean row with one cell replaced, or with every cell but the key        *)
(* missing.  A table holds at most one wide row.                           *)
(***************************************************************************)
MaxRows == 3

BaseRow ==
    [customer_id    |-> <<"1">>,
     first_name     |-> <<"J","o","h","n">>,
     last_name      |-> <<"D","o","e">>,
     email          |-> JohnDoeEmail,
     phone          |-> Phone5551234567,
     date_of_birth  |-> Dob19850315,
     address        |-> MainStreet,
     income         |-> <<"5","0","0","0","0">>,
     account_status |-> <<"a","c","t","i","v","e">>,
     created_date   |-> <<"2","0","2","4","-","0","1","-","1","0">>]

RepairableRow ==
    [customer_id    |-> <<"2">>,
     first_name     |-> <<" ","J","A","N","E">>,
     last_name      |-> <<"r","o","e"," ">>,
     email          |-> <<"j","a","n","e","@","e","x","a","m","p","l","e",".","o","r","g">>,
     phone          |-> <<"5","5","5","9","8","7","6","5","4","3">>,
     date_of_birth  |-> <<>>,
     address        |-> <<>>,
     income         |-> <<>>,
     account_status |-> <<>>,
     created_date   |-> <<>>]

DeletedRow == [BaseRow EXCEPT !["customer_id"] = <<>>]

FlaggedRow == [RepairableRow EXCEPT !["income"] = <<"-","5","0">>]

ContextRows == { BaseRow, RepairableRow, DeletedRow, FlaggedRow }

Alternatives(c) ==
    CASE c = "customer_id"    -> { <<>>, <<" ">>, <<" ","n","a","n">>, <<"a","b","c">>, <<"0">>, <<"2">>, <<"i","n","f">> }
      [] c = "first_name"     -> { <<>>, <<" ">>, <<"J","O","H","N">>, <<"J">> }
      [] c = "last_name"      -> { <<>>, <<"O","'","N","e","i","l">> }
      [] c = "email"          -> { <<>>, <<"n","o","t","-","a","n","-","e","m","a","i","l">> }
      [] c = "phone"          -> { <<>>, <<"5","5","5","1","2","3","4","5","6","7">>, <<"(","5","5","5",")"," ","1","2","3","-","4","5","6","7">>, <<"1","2","3","4","5">> }
      [] c = "date_of_birth"  -> { <<>>, <<"1","9","8","5","-","1","3","-","4","5">> }
      [] c = "address"        -> { <<>>, <<" ","n","a","n">>, <<"S","h","o","r","t">> }
      [] c = "income"         -> { <<>>, <<"-","5","0">>, <<"a","b","c">>, <<"2","0","0","0","0","0","0","0">>, <<"5","0","0","0","0",".","5">> }
      [] c = "account_status" -> { <<>>, <<" ">>, <<"c","l","o","s","e","d">> }
      [] c = "created_date"   -> { <<>>, <<"n","o","t"," ","a"," ","d","a","t","e">> }

AllMissing(marker) ==
    [c \in ColSet |-> IF c = "customer_id" THEN <<"1">> ELSE marker]

WideRows ==
    UNION { { [BaseRow EXCEPT ![c] = v] : v \in Alternatives(c) } : c \in ColSet }
    \cup { AllMissing(<<>>), AllMissing(<<" ">>) }

TablesOfLength(n) ==
    LET context == [1..n -> ContextRows]
    IN  context \cup { [t EXCEPT ![i] = w] : t \in context, i \in 1..n, w \in WideRows }

Tables == UNION { TablesOfLength(n) : n \in 0..MaxRows }

(***************************************************************************)
(* clean_dataset(input_path, output_path)                                  *)
(***************************************************************************)
CleanIdle ==
    /\ raw = <<>>
    /\ pc = "idle"
    /\ df = <<>>
    /\ dtypes = [c \in ColSet |-> "object"]
    /\ initial_count = 0
    /\ pos = 0
    /\ cleaned_rows = <<>>
    /\ flagged_rows = <<>>
    /\ output = NoFile
    /\ result = NoResult

\* the Validator is not running
ValIdle ==
    /\ vfile = <<>>
    /\ vpc = "idle"
    /\ vdf = <<>>
    /\ vdtypes = [c \in ColSet |-> "object"]
    /\ vpos = 0
    /\ seen_ids = {}
    /\ failed_rows = <<>>
    /\ vresult = NoResult

\* the Detector is not running
DetIdle ==
    /\ dfile = <<>>
    /\ ddf = <<>>
    /\ dpc = "idle"
    /\ dresult = NoResult

\* run_pipeline is not running
PipeIdle ==
    /\ ppc = "idle"
    /\ stages = <<>>
    /\ input_rows = 0
    /\ overall_status = "unset"
    /\ pii_summary = NoResult
    /\ masked = NoFile
    /\ report = NoResult

MaskIdle ==
    /\ mcol = "first_name"
    /\ mval = NULL
    /\ once = NULL
    /\ twice = NULL
    /\ mpc = "idle"

CleanInit ==
    /\ raw \in Tables
    /\ pc = "start"
    /\ df = <<>>
    /\ dtypes = [c \in ColSet |-> "object"]
    /\ initial_count = 0
    /\ pos = 0
    /\ cleaned_rows = <<>>
    /\ flagged_rows = <<>>
    /\ output = NoFile
    /\ result = NoResult

Init == CleanInit /\ MaskIdle /\ ValIdle /\ DetIdle /\ PipeIdle

\* lines 50-60: the file is read
ReadInput ==
    /\ pc = "start"
    /\ df' = read_csv(raw)
    /\ dtypes' = [c \in ColSet |-> ColumnKind(raw, c)]
    /\ initial_count' = Len(raw)
    /\ pc' = "read"
    /\ UNCHANGED <<raw, pos, cleaned_rows, flagged_rows, output, result>>
    /\ UNCHANGED <<maskVars, valVars, detVars, pipeVars>>

\* lines 53-58: the file cannot be read; the exception is raised again
ReadFails ==
    /\ pc = "start"
    /\ pc' = "failed"
    /\ UNCHANGED <<raw, df, dtypes, initial_count, pos, cleaned_rows, flagged_rows,
                   output, result>>
    /\ UNCHANGED <<maskVars, valVars, detVars, pipeVars>>

\* lines 62-68: the text cells are trimmed
Trim ==
    /\ pc = "read"
    /\ df' = [i \in 1..Len(df) |->
                [df[i] EXCEPT !.row = [c \in ColSet |-> TrimCell(@[c], dtypes[c])]]]
    /\ pc' = "trimmed"
    /\ UNCHANGED <<raw, dtypes, initial_count, pos, cleaned_rows, flagged_rows,
                   output, result>>
    /\ UNCHANGED <<maskVars, valVars, detVars, pipeVars>>

\* lines 70-77: the rows without a customer_id are deleted
DeleteMissingId ==
    /\ pc = "trimmed"
    /\ LET Keep(r) == HasCustomerId(r, dtypes)
       IN  df' = SelectSeq(df, Keep)
    /\ pc' = "gated"
    /\ UNCHANGED <<raw, dtypes, initial_count, pos, cleaned_rows, flagged_rows,
                   output, result>>
    /\ UNCHANGED <<maskVars, valVars, detVars, pipeVars>>

\* lines 79-88: customer_id and income become numbers; the rows whose
\* customer_id is no number are deleted
CoerceNumeric ==
    /\ pc = "gated"
    /\ LET coerced ==
              [i \in 1..Len(df) |->
                  [df[i] EXCEPT !.row =
                      [@ EXCEPT !["customer_id"] =
                                    CoerceNumericCell(@, dtypes["customer_id"]),
                                !["income"] =
                                    CoerceNumericCell(@, dtypes["income"])]]]
       IN  /\ df' = SelectSeq(coerced, HasNumericId)
           /\ dtypes' = [dtypes EXCEPT
                            !["customer_id"] = NumericKind(coerced, "customer_id"),
                            !["income"] = NumericKind(coerced, "income")]
    /\ pc' = "coerced"
    /\ UNCHANGED <<raw, initial_count, pos, cleaned_rows, flagged_rows, output, result>>
    /\ UNCHANGED <<maskVars, valVars, detVars, pipeVars>>

\* lines 92-159: the missing cells are filled, names, phones and dates normalized
Repair ==
    /\ pc = "coerced"
    /\ df' = [i \in 1..Len(df) |-> [df[i] EXCEPT !.row = RepairRow(@, dtypes)]]
    /\ pc' = "revalidating"
    /\ UNCHANGED <<raw, dtypes, initial_count, pos, cleaned_rows, flagged_rows,
                   output, result>>
    /\ UNCHANGED <<maskVars, valVars, detVars, pipeVars>>

\* the entry of the ledger for a rejected row
FlagEntry(r, error) ==
    [row_index |-> r.index, customer_id |-> r.row["customer_id"], error |-> error]

\* lines 165-200 with cleaned_rows.append(row) ahead of the validation
RevalidateRow_appends_before_validation ==
    /\ pc = "revalidating"
    /\ pos < Len(df)
    /\ LET r == df[pos + 1]
       IN  /\ pc' = pc
           /\ pos' = pos + 1
           /\ cleaned_rows' = Append(cleaned_rows, r)
           /\ flagged_rows' =
                 IF Customer(RowDict(r.row)) THEN flagged_rows
                 ELSE Append(flagged_rows, FlagEntry(r, CustomerErrors(RowDict(r.row))))
    /\ UNCHANGED <<raw, df, dtypes, initial_count, output, result>>
    /\ UNCHANGED <<maskVars, valVars, detVars, pipeVars>>

\* lines 165-200: one turn of the re-validation loop.  int() of an infinite
\* customer_id raises OverflowError, which no handler of the loop catches;
\* int() of a NaN raises ValueError, which flags the row.
RevalidateRow ==
    /\ pc = "revalidating"
    /\ pos < Len(df)
    /\ LET r == df[pos + 1]
       IN  IF r.row["customer_id"] = Inf
           THEN /\ pc' = "crashed"
                /\ UNCHANGED <<pos, cleaned_rows, flagged_rows>>
           ELSE /\ pc' = pc
                /\ pos' = pos + 1
                /\ IF r.row["customer_id"] = NULL
                   THEN /\ flagged_rows' =
                              Append(flagged_rows, FlagEntry(r, {"conversion"}))
                        /\ UNCHANGED cleaned_rows
                   ELSE IF Customer(RowDict(r.row))
                   THEN /\ cleaned_rows' = Append(cleaned_rows, r)
                        /\ UNCHANGED flagged_rows
                   ELSE /\ flagged_rows' =
                              Append(flagged_rows,
                                     FlagEntry(r, CustomerErrors(RowDict(r.row))))
                        /\ UNCHANGED cleaned_rows
    /\ UNCHANGED <<raw, df, dtypes, initial_count, output, result>>
    /\ UNCHANGED <<maskVars, valVars, detVars, pipeVars>>

\* lines 202-214: nothing was accepted; ValueError("All rows failed validation")
RaiseNoValidRows ==
    /\ pc = "revalidating"
    /\ pos = Len(df)
    /\ Len(cleaned_rows) = 0
    /\ pc' = "failed"
    /\ UNCHANGED <<raw, df, dtypes, initial_count, pos, cleaned_rows, flagged_rows,
                   output, result>>
    /\ UNCHANGED <<maskVars, valVars, detVars, pipeVars>>

\* lines 202-239 without the test of lines 212-214
WriteAndReturn_without_empty_test ==
    /\ pc = "revalidating"
    /\ pos = Len(df)
    /\ output' = [k |-> "file",
                  rows |-> [i \in 1..Len(cleaned_rows) |->
                               ToCsvRow(cleaned_rows[i].row, dtypes)]]
    /\ result' = [k |-> "result",
                  initial_count |-> initial_count,
                  deleted_count |-> deleted_count_of(initial_count, df, cleaned_rows),
                  cleaned_count |-> Len(cleaned_rows),
                  flagged_count |-> Len(flagged_rows),
                  flagged_rows  |-> flagged_rows]
    /\ pc' = "returned"
    /\ UNCHANGED <<raw, df, dtypes, initial_count, pos, cleaned_rows, flagged_rows>>
    /\ UNCHANGED <<maskVars, valVars, detVars, pipeVars>>

\* lines 202-239: the accepted rows are written and the counts returned
WriteAndReturn ==
    /\ pc = "revalidating"
    /\ pos = Len(df)
    /\ Len(cleaned_rows) # 0
    /\ output' = [k |-> "file",
                  rows |-> [i \in 1..Len(cleaned_rows) |->
                               ToCsvRow(cleaned_rows[i].row, dtypes)]]
    /\ result' = [k |-> "result",
                  initial_count |-> initial_count,
                  deleted_count |-> deleted_count_of(initial_count, df, cleaned_rows),
                  cleaned_count |-> Len(cleaned_rows),
                  flagged_count |-> Len(flagged_rows),
                  flagged_rows  |-> flagged_rows]
    /\ pc' = "returned"
    /\ UNCHANGED <<raw, df, dtypes, initial_count, pos, cleaned_rows, flagged_rows>>
    /\ UNCHANGED <<maskVars, valVars, detVars, pipeVars>>

\* lines 226-231: the destination cannot be written; the exception is raised again
WriteFails ==
    /\ pc = "revalidating"
    /\ pos = Len(df)
    /\ Len(cleaned_rows) # 0
    /\ pc' = "failed"
    /\ UNCHANGED <<raw, df, dtypes, initial_count, pos, cleaned_rows, flagged_rows,
                   output, result>>
    /\ UNCHANGED <<maskVars, valVars, detVars, pipeVars>>

CleanNext ==
    \/ ReadInput
    \/ ReadFails
    \/ Trim
    \/ DeleteMissingId
    \/ CoerceNumeric
    \/ Repair
    \/ RevalidateRow
    \/ RaiseNoValidRows
    \/ WriteAndReturn
    \/ WriteFails

Next == CleanNext

Spec == Init /\ [][Next]_vars

(***************************************************************************)
(* Properties of clean_dataset.                                            *)
(***************************************************************************)
\* the customer_id text of the input row with index i (indexes start at 0)
RawId(i) == raw[i + 1]["customer_id"]

\* a customer_id of the input that is present and numeric
IdUsable(text) ==
    LET s == Strip(text) IN s \notin NaValues /\ ParseNumber(s) # NULL

\* the indexes of the input rows whose customer_id is missing, empty, the
\* "nan" marker or not numeric
GateDeleted == { i \in 0..(Len(raw) - 1) : ~IdUsable(RawId(i)) }

Indexes(rows) == { rows[k].index : k \in 1..Len(rows) }

FlaggedIndexes == { flagged_rows[k].row_index : k \in 1..Len(flagged_rows) }

FlagEntries(i) == { k \in 1..Len(flagged_rows) : flagged_rows[k].row_index = i }

(***************************************************************************)
(* C1: whenever clean_dataset returns a result,                            *)
(* deleted_count + cleaned_count + flagged_count = initial_count, the      *)
(* number of rows of the input.                                            *)
(***************************************************************************)
C1_CountsAddUp ==
    (pc = "returned") =>
        /\ result.initial_count = Len(raw)
        /\ result.deleted_count + result.cleaned_count + result.flagged_count
              = result.initial_count

\* a run that deleted a row, accepted a row and flagged a row has returned
C1_Witness ==
    /\ pc = "returned"
    /\ result.deleted_count > 0
    /\ result.cleaned_count > 0
    /\ result.flagged_count > 0

(***************************************************************************)
(* C2: the cleaned table written by clean_dataset holds no two rows with   *)
(* the same customer_id.                                                   *)
(***************************************************************************)
C2_NoDuplicateIds ==
    (pc = "returned") =>
        \A j, k \in 1..Len(output.rows) :
            j # k => output.rows[j]["customer_id"] # output.rows[k]["customer_id"]

(***************************************************************************)
(* C3: once clean_dataset has ended its re-validation, every row that      *)
(* survived the customer_id delete gate is either accepted, when its       *)
(* repaired form converts and satisfies every rule of Customer, or absent  *)
(* from the accepted rows with exactly one entry in flagged_rows; no row   *)
(* is both accepted and flagged.                                           *)
(***************************************************************************)
C3_EverySurvivorAcceptedOrFlagged ==
    (pc \in {"returned", "crashed"}) =>
        \A k \in 1..Len(df) :
            LET r == df[k]
                valid == r.row["customer_id"] # Inf /\ Customer(RowDict(r.row))
            IN  /\ (r.index \in Indexes(cleaned_rows)) <=> valid
                /\ valid => FlagEntries(r.index) = {}
                /\ ~valid => Cardinality(FlagEntries(r.index)) = 1

(***************************************************************************)
(* C3, for the rows the re-validation loop has taken: the row is accepted  *)
(* exactly when its repaired form satisfies every rule of Customer; a row  *)
(* that fails is not accepted and has exactly one entry in flagged_rows    *)
(* (row index, customer_id, error); no row is both accepted and flagged;   *)
(* the written table is the accepted rows.                                 *)
(***************************************************************************)
C3_AcceptedIffValid ==
    /\ \A k \in 1..pos :
          LET r == df[k]
              valid == Customer(RowDict(r.row))
          IN  /\ (r.index \in Indexes(cleaned_rows)) <=> valid
              /\ valid => FlagEntries(r.index) = {}
              /\ ~valid =>
                    /\ Cardinality(FlagEntries(r.index)) = 1
                    /\ \A e \in FlagEntries(r.index) :
                          /\ flagged_rows[e].customer_id = r.row["customer_id"]
                          /\ flagged_rows[e].error # {}
    /\ Indexes(cleaned_rows) \subseteq { df[k].index : k \in 1..pos }
    /\ Indexes(cleaned_rows) \cap GateDeleted = {}
    /\ Indexes(cleaned_rows) \cap FlaggedIndexes = {}
    /\ (pc = "returned") =>
          /\ pos = Len(df)
          /\ Indexes(df) = (0..(Len(raw) - 1)) \ GateDeleted
          /\ output.rows =
                [k \in 1..Len(cleaned_rows) |-> ToCsvRow(cleaned_rows[k].row, dtypes)]

\* a run that accepted a row and flagged another has returned
C3_Witness ==
    /\ pc = "returned"
    /\ Len(cleaned_rows) > 0
    /\ Len(flagged_rows) > 0
    /\ \E e \in 1..Len(flagged_rows) : "income" \in flagged_rows[e].error

C5_DeletedIsInitialMinusFinal ==
    (pc = "returned") =>
        result.deleted_count = result.initial_count - Len(output.rows)

(***************************************************************************)
(* C5 (amended): deleted_count is the number of rows the customer_id       *)
(* delete gate removed; the rows flagged by re-validation are not counted  *)
(* in it, so initial_count minus the number of rows of the final cleaned   *)
(* table is deleted_count + flagged_count.                                 *)
(***************************************************************************)
C5_DeletedCountsGateOnly ==
    (pc = "returned") =>
        /\ result.deleted_count = result.initial_count - Len(df)
        /\ result.initial_count - Len(output.rows)
              = result.deleted_count + Len(result.flagged_rows)

\* a run that flagged a row has returned: initial - final exceeds deleted_count
C5_Witness ==
    /\ pc = "returned"
    /\ result.flagged_count > 0
    /\ result.deleted_count < result.initial_count - Len(output.rows)

(***************************************************************************)
(* C6: a row whose customer_id is missing, empty, the "nan" marker or not  *)
(* numeric is deleted and never filled: it is counted in deleted_count, it *)
(* is in neither the cleaned table nor the flagged_rows ledger, and the    *)
(* customer_id of every kept row is the number the input gave.             *)
(***************************************************************************)
C6_BadIdDeletedNeverFilled ==
    /\ (pc \in {"coerced", "revalidating", "returned", "crashed"}) =>
          /\ Indexes(df) \cap GateDeleted = {}
          /\ \A k \in 1..Len(df) :
                df[k].row["customer_id"] = ParseNumber(Strip(RawId(df[k].index)))
    /\ Indexes(cleaned_rows) \cap GateDeleted = {}
    /\ FlaggedIndexes \cap GateDeleted = {}
    /\ (pc = "returned") =>
          /\ result.deleted_count = Cardinality(GateDeleted)
          /\ Len(output.rows) + Len(flagged_rows) + Cardinality(GateDeleted) = Len(raw)

\* a run whose input held a row with a non-numeric customer_id has returned
C6_Witness ==
    /\ pc = "returned"
    /\ \E i \in GateDeleted : RawId(i) = <<"a", "b", "c">>
    /\ \E i \in GateDeleted : RawId(i) = <<>>
    /\ result.deleted_count = 2

(***************************************************************************)
(* C8: when re-validation accepts no row, clean_dataset raises instead of  *)
(* returning and writes nothing to the destination: no result and no       *)
(* cleaned table exist while no row has been accepted, and the step taken  *)
(* at the end of the loop with no accepted row is the failure.             *)
(***************************************************************************)
C8_EmptyResultFails ==
    /\ [](Len(cleaned_rows) = 0 =>
            (pc # "returned" /\ output = NoFile /\ result = NoResult))
    /\ [][(pc = "revalidating" /\ pos = Len(df) /\ Len(cleaned_rows) = 0) =>
            (pc' = "failed" /\ output' = NoFile /\ result' = NoResult)]_vars

\* every row that passed the gate was flagged and the run failed, unwritten
C8_Witness ==
    /\ pc = "failed"
    /\ Len(df) > 0
    /\ pos = Len(df)
    /\ Len(flagged_rows) = Len(df)
    /\ output = NoFile

\* the digits of a phone text, grouped as DDD-DDD-DDDD
GroupedPhone(digits) ==
    SubSeq(digits, 1, 3) \o <<"-">> \o SubSeq(digits, 4, 6) \o <<"-">> \o SubSeq(digits, 7, 10)

(***************************************************************************)
(* C12: once the Cleaner has repaired the table, the phone of a row is the *)
(* digits of the input phone grouped as DDD-DDD-DDDD when the input phone  *)
(* holds exactly 10 digits, and the placeholder 000-000-0000 otherwise; no *)
(* row is flagged because of its phone, and every phone of the cleaned     *)
(* table is in the form DDD-DDD-DDDD.                                      *)
(***************************************************************************)
C12_PhoneNormalizedOrPlaceholder ==
    /\ (pc \in {"revalidating", "returned"}) =>
          \A k \in 1..Len(df) :
              LET digits == DigitsOf(raw[df[k].index + 1]["phone"])
              IN  df[k].row["phone"] =
                      IF Len(digits) = 10 THEN GroupedPhone(digits) ELSE ZeroPhone
    /\ \A e \in 1..Len(flagged_rows) : "phone" \notin flagged_rows[e].error
    /\ (pc = "returned") =>
          \A k \in 1..Len(output.rows) :
              /\ Len(output.rows[k]["phone"]) = Len(PhonePattern)
              /\ MatchPrefix(output.rows[k]["phone"], PhonePattern)

\* the number an income text of the input stands for; NULL when it is missing or
\* does not parse
IncomeOf(text) ==
    IF text \in NaValues \/ Strip(text) \in NaValues THEN NULL
    ELSE ParseNumber(Strip(text))

\* a number outside [0, 10,000,000]
OutOfRange(x) == x = Inf \/ IsNegative(x) \/ ExceedsNat(x, IncomeMax)

(***************************************************************************)
(* C13: for every row the re-validation loop has taken, an income that     *)
(* parses as a number is never replaced; when that number is outside       *)
(* [0, 10,000,000] the row is not accepted and has one flagged_rows entry, *)
(* which names income; only a missing or unparseable income becomes 0.0.   *)
(***************************************************************************)
C13_OutOfRangeIncomeFlagged ==
    \A k \in 1..pos :
        LET r == df[k]
            x == IncomeOf(raw[r.index + 1]["income"])
        IN  /\ x = NULL => r.row["income"] = Zero
            /\ x # NULL => r.row["income"] = x
            /\ (x # NULL /\ OutOfRange(x)) =>
                  /\ r.index \notin Indexes(cleaned_rows)
                  /\ Cardinality(FlagEntries(r.index)) = 1
                  /\ \A e \in FlagEntries(r.index) : "income" \in flagged_rows[e].error

\* a run has returned that flagged a row with income -50 and accepted a row
\* whose unparseable income became 0.0
C13_Witness ==
    /\ pc = "returned"
    /\ \E e \in 1..Len(flagged_rows) :
          /\ raw[flagged_rows[e].row_index + 1]["income"] = <<"-","5","0">>
          /\ "income" \in flagged_rows[e].error
    /\ \E k \in 1..Len(cleaned_rows) :
          /\ raw[cleaned_rows[k].index + 1]["income"] = <<"a","b","c">>
          /\ cleaned_rows[k].row["income"] = Zero

\* a cell of the input that is missing: a null marker, empty or blank
MissingText(text) == text \in NaValues \/ Strip(text) \in NaValues

\* a customer_id text of the input that is a positive integer
PositiveIntegerId(text) ==
    LET x == ParseNumber(Strip(text))
    IN  /\ ~MissingText(text)
        /\ IsFinite(x) /\ IsIntegral(x) /\ ~IsNegative(x) /\ ~IsZeroNumber(x)

\* the row the FILL policy makes of a row with every field but the key missing
PlaceholderRow(id) ==
    [c \in ColSet |->
        CASE c = "customer_id"    -> id
          [] c = "first_name"     -> Unknown
          [] c = "last_name"      -> Unknown
          [] c = "email"          -> NoEmail
          [] c = "phone"          -> ZeroPhone
          [] c = "date_of_birth"  -> <<"date", 1900, 1, 1>>
          [] c = "created_date"   -> Now
          [] c = "address"        -> AddressNotProvided
          [] c = "income"         -> Zero
          [] c = "account_status" -> <<"i","n","a","c","t","i","v","e">>]

(***************************************************************************)
(* C17: for every row the re-validation loop has taken, a row whose        *)
(* customer_id is a positive integer and whose other fields are all        *)
(* missing is filled with the placeholders and accepted, not flagged; and  *)
(* no flagged_rows entry of any row names a field that was missing in the  *)
(* input, so a fill alone never causes a row to be flagged.                *)
(***************************************************************************)
C17_AllMissingRowAccepted ==
    \A k \in 1..pos :
        LET r == df[k]
            given == raw[r.index + 1]
        IN  /\ ( /\ PositiveIntegerId(given["customer_id"])
                 /\ \A c \in ColSet \ {"customer_id"} : MissingText(given[c]) ) =>
                    /\ r.row = PlaceholderRow(ParseNumber(Strip(given["customer_id"])))
                    /\ r.index \in Indexes(cleaned_rows)
                    /\ FlagEntries(r.index) = {}
            /\ \A c \in ColSet \ {"customer_id"} : \A e \in FlagEntries(r.index) :
                  MissingText(given[c]) => c \notin flagged_rows[e].error

\* a run has returned whose table held, next to a flagged row, a row of blanks
\* with customer_id 1, and that row is in the cleaned table with the
\* placeholders
C17_Witness ==
    /\ pc = "returned"
    /\ Len(flagged_rows) > 0
    /\ \E k \in 1..Len(cleaned_rows) :
          /\ raw[cleaned_rows[k].index + 1] = AllMissing(<<" ">>)
          /\ output.rows[k]["email"] = NoEmail
          /\ output.rows[k]["account_status"] = <<"i","n","a","c","t","i","v","e">>

\* ----------------------------- validator runs -----------------------------
(***************************************************************************)
(* validate_dataset (validator.py, lines 58-116).                          *)
(***************************************************************************)
\* row.to_dict(): the Python value of a cell of a column of the given dtype
PyValue(cell, kind) ==
    IF cell = NULL THEN PyNaN
    ELSE IF kind = "object" THEN PyStr(cell)
    ELSE PyNum(cell)

ValRowDict(row, kinds) == [c \in ColSet |-> PyValue(row[c], kinds[c])]

\* e.errors()[0]["loc"][0]: the first field, in the order the fields of
\* Customer are declared, whose rule rejects the row
FirstErrorColumn(rd) ==
    LET errors == CustomerErrors(rd)
    IN  Columns[CHOOSE i \in 1..Len(Columns) :
                    /\ Columns[i] \in errors
                    /\ \A j \in 1..(i - 1) : Columns[j] \notin errors]

\* line 75: row_dict["customer_id"] in seen_ids.  A NaN is equal to nothing,
\* itself included, and row.to_dict() makes a new float of every NaN cell.
IsDuplicate(id, seen) == id # NULL /\ id \in seen

\* line 77 left out: no customer_id is remembered
Register_nothing(seen, id) == seen

\* line 77: seen_ids.add(row_dict["customer_id"])
Register(seen, id) == seen \cup {id}

DuplicateError == {"Duplicate customer_id"}

\* lines 84-95: the failure record
FailureRecord(r, column, error) ==
    [row_index |-> r.index,
     customer_id |-> r.row["customer_id"],
     column |-> column,
     error |-> error]

\* failures_by_column: the failure records of each column that has some
failures_by_column(failed) ==
    LET cols == { failed[k].column : k \in 1..Len(failed) }
    IN  [c \in cols |-> SelectSeq(failed, LAMBDA f : f.column = c)]

ValInit ==
    /\ CleanIdle
    /\ MaskIdle
    /\ DetIdle
    /\ PipeIdle
    /\ vfile \in Tables
    /\ vpc = "start"
    /\ vdf = <<>>
    /\ vdtypes = [c \in ColSet |-> "object"]
    /\ vpos = 0
    /\ seen_ids = {}
    /\ failed_rows = <<>>
    /\ vresult = NoResult

\* lines 61-69: the file is read and the object columns are trimmed
ValLoad ==
    /\ vpc = "start"
    /\ LET kinds == [c \in ColSet |-> ColumnKind(vfile, c)]
           frame == read_csv(vfile)
       IN  /\ vdtypes' = kinds
           /\ vdf' = [i \in 1..Len(frame) |->
                        [frame[i] EXCEPT
                            !.row = [c \in ColSet |-> TrimCell(@[c], kinds[c])]]]
    /\ vpc' = "validating"
    /\ UNCHANGED <<vfile, vpos, seen_ids, failed_rows, vresult>>
    /\ UNCHANGED <<cleanVars, maskVars, detVars, pipeVars>>

\* lines 71-104 with line 77 moved after line 79: the customer_id is remembered
\* only when Customer accepted the row
ValidateRow_registers_valid_rows_only ==
    /\ vpc = "validating"
    /\ vpos < Len(vdf)
    /\ LET r == vdf[vpos + 1]
           id == r.row["customer_id"]
           rd == ValRowDict(r.row, vdtypes)
       IN  IF IsDuplicate(id, seen_ids)
           THEN /\ failed_rows' =
                      Append(failed_rows, FailureRecord(r, "unknown", DuplicateError))
                /\ UNCHANGED seen_ids
           ELSE IF Customer(rd)
           THEN /\ seen_ids' = Register(seen_ids, id)
                /\ UNCHANGED failed_rows
           ELSE /\ UNCHANGED seen_ids
                /\ failed_rows' =
                      Append(failed_rows,
                             FailureRecord(r, FirstErrorColumn(rd), CustomerErrors(rd)))
    /\ vpos' = vpos + 1
    /\ UNCHANGED <<vfile, vpc, vdf, vdtypes, vresult>>
    /\ UNCHANGED <<cleanVars, maskVars, detVars, pipeVars>>

\* lines 71-104: one turn of the loop
ValidateRow ==
    /\ vpc = "validating"
    /\ vpos < Len(vdf)
    /\ LET r == vdf[vpos + 1]
           id == r.row["customer_id"]
           rd == ValRowDict(r.row, vdtypes)
       IN  IF IsDuplicate(id, seen_ids)
           THEN /\ failed_rows' =
                      Append(failed_rows, FailureRecord(r, "unknown", DuplicateError))
                /\ UNCHANGED seen_ids
           ELSE /\ seen_ids' = Register(seen_ids, id)
                /\ failed_rows' =
                      IF Customer(rd) THEN failed_rows
                      ELSE Append(failed_rows,
                                  FailureRecord(r, FirstErrorColumn(rd),
                                                CustomerErrors(rd)))
    /\ vpos' = vpos + 1
    /\ UNCHANGED <<vfile, vpc, vdf, vdtypes, vresult>>
    /\ UNCHANGED <<cleanVars, maskVars, detVars, pipeVars>>

\* lines 106-116: the report is returned
ValReturn ==
    /\ vpc = "validating"
    /\ vpos = Len(vdf)
    /\ vresult' = [k |-> "report",
                   total_rows |-> Len(vdf),
                   passed_count |-> Len(vdf) - Len(failed_rows),
                   failed_count |-> Len(failed_rows),
                   failed_rows |-> failed_rows,
                   failures_by_column |-> failures_by_column(failed_rows),
                   passed |-> (Len(failed_rows) = 0)]
    /\ vpc' = "returned"
    /\ UNCHANGED <<vfile, vdf, vdtypes, vpos, seen_ids, failed_rows>>
    /\ UNCHANGED <<cleanVars, maskVars, detVars, pipeVars>>

ValNext == ValLoad \/ ValidateRow \/ ValReturn

SpecValidate == ValInit /\ [][ValNext]_vars

(***************************************************************************)
(* Properties of validate_dataset.                                         *)
(***************************************************************************)
\* the failure records of the row at position k of the DataFrame
FailuresOf(k) ==
    { e \in 1..Len(failed_rows) : failed_rows[e].row_index = vdf[k].index }

\* an earlier row carries the customer_id of the row at position k
MetBefore(k) ==
    /\ vdf[k].row["customer_id"] # NULL
    /\ \E j \in 1..(k - 1) : vdf[j].row["customer_id"] = vdf[k].row["customer_id"]

(***************************************************************************)
(* C7: in one validate_dataset run, a row whose customer_id no earlier row *)
(* carried passes the uniqueness test (it fails only if Customer rejects   *)
(* it, and then not as a duplicate), and every later row with the same     *)
(* customer_id gets exactly one failure record, the duplicate-key one,     *)
(* whether or not the row is otherwise valid.                              *)
(***************************************************************************)
C7_LaterOccurrencesAreDuplicates ==
    \A k \in 1..vpos :
        LET rd == ValRowDict(vdf[k].row, vdtypes)
            met == MetBefore(k)
        IN  /\ met =>
                /\ Cardinality(FailuresOf(k)) = 1
                /\ \A e \in FailuresOf(k) :
                      /\ failed_rows[e].column = "unknown"
                      /\ failed_rows[e].error = DuplicateError
            /\ ~met =>
                /\ (FailuresOf(k) = {}) <=> Customer(rd)
                /\ \A e \in FailuresOf(k) :
                      /\ failed_rows[e].error # DuplicateError
                      /\ failed_rows[e].column = FirstErrorColumn(rd)

\* three rows: the first and the third carry the same customer_id, both are
\* valid, and the report holds the third as a duplicate and nothing else
C7_Witness ==
    /\ vpc = "returned"
    /\ Len(vdf) = 3
    /\ vdf[1].row["customer_id"] = vdf[3].row["customer_id"]
    /\ vdf[2].row["customer_id"] # vdf[1].row["customer_id"]
    /\ Customer(ValRowDict(vdf[3].row, vdtypes))
    /\ vresult.failed_count = 1
    /\ vresult.failed_rows[1].row_index = 2
    /\ vresult.failed_rows[1].error = DuplicateError

(***************************************************************************)
(* C16: in validate_dataset the customer_id of a row is in seen_ids as     *)
(* soon as the row has been taken, whether or not Customer accepted it; so *)
(* a later row with the customer_id of an earlier row that failed its      *)
(* field rules gets the duplicate-key failure, even when the later row     *)
(* satisfies every field rule.                                             *)
(***************************************************************************)
C16_SeenBeforeFieldRules ==
    /\ seen_ids = { vdf[k].row["customer_id"] : k \in 1..vpos }
    /\ \A k \in 1..vpos : \A j \in 1..(k - 1) :
          ( /\ vdf[k].row["customer_id"] # NULL
            /\ vdf[j].row["customer_id"] = vdf[k].row["customer_id"]
            /\ ~Customer(ValRowDict(vdf[j].row, vdtypes)) ) =>
                /\ FailuresOf(j) # {}
                /\ Cardinality(FailuresOf(k)) = 1
                /\ \A e \in FailuresOf(k) : failed_rows[e].error = DuplicateError

\* two rows with one customer_id: the first fails a field rule, the second
\* satisfies every field rule and is reported as a duplicate, so no row with
\* that customer_id passes
C16_Witness ==
    /\ vpc = "returned"
    /\ Len(vdf) = 2
    /\ vdf[1].row["customer_id"] = vdf[2].row["customer_id"]
    /\ ~Customer(ValRowDict(vdf[1].row, vdtypes))
    /\ Customer(ValRowDict(vdf[2].row, vdtypes))
    /\ vresult.passed_count = 0
    /\ vresult.failed_rows[1].column = "email"
    /\ vresult.failed_rows[2].error = DuplicateError

\* ----------------------------- detector runs ------------------------------
(***************************************************************************)
(* detect_pii (detect_pii.py, lines 7-59).                                 *)
(***************************************************************************)
\* df[col].astype(str) on one cell: a null cell is the text "nan"
StrOf(cell, kind) ==
    IF cell = NULL THEN <<"n","a","n">> ELSE PyText(cell, kind)

\* EMAIL_REGEX ^[^@\s]+@[^@\s]+\.[^@\s]+$ : no blank, one "@" with something
\* before it, and after it a "." that is neither its first nor its last
\* character
EmailRegexMatch(s) ==
    LET at == Find(s, "@")
        domain == Slice(s, at + 1, Len(s))
    IN  /\ at > 1
        /\ Find(domain, "@") = 0
        /\ Find(s, " ") = 0
        /\ \E i \in 2..(Len(domain) - 1) : domain[i] = "."

\* PHONE_REGEX ^\+?[\d\s().-]{7,20}$
PhoneRegexMatch(s) ==
    LET body == IF s # <<>> /\ Head(s) = "+" THEN Tail(s) ELSE s
    IN  /\ Len(body) >= 7 /\ Len(body) <= 20
        /\ \A i \in 1..Len(body) : body[i] \in Digit \cup {" ", "(", ")", ".", "-"}

\* line 18
EmailMask(r, kinds) == EmailRegexMatch(StrOf(r.row["email"], kinds["email"]))

\* line 25
PhoneMask(r, kinds) == PhoneRegexMatch(StrOf(r.row["phone"], kinds["phone"]))

\* lines 32-36 without the test of last_name
IdentityMask_ignores_last_name(r, kinds) ==
    /\ r.row["first_name"] # NULL
    /\ EmailRegexMatch(StrOf(r.row["email"], kinds["email"]))

\* lines 32-36
IdentityMask(r, kinds) ==
    /\ r.row["first_name"] # NULL
    /\ r.row["last_name"] # NULL
    /\ EmailRegexMatch(StrOf(r.row["email"], kinds["email"]))

\* detect_pii(df): the rows of each category and their counts
detect_pii(frame, kinds) ==
    LET emails    == SelectSeq(frame, LAMBDA r : EmailMask(r, kinds))
        phones    == SelectSeq(frame, LAMBDA r : PhoneMask(r, kinds))
        identity  == SelectSeq(frame, LAMBDA r : IdentityMask(r, kinds))
        addresses == SelectSeq(frame, LAMBDA r : r.row["address"] # NULL)
        dob       == SelectSeq(frame, LAMBDA r : r.row["date_of_birth"] # NULL)
    IN  [k |-> "pii",
         details |-> [emails |-> emails, phones |-> phones, full_identity |-> identity,
                      addresses |-> addresses, dob |-> dob],
         summary |-> [emails_found |-> Len(emails),
                      phones_found |-> Len(phones),
                      full_identity_found |-> Len(identity),
                      addresses_found |-> Len(addresses),
                      dob_found |-> Len(dob)]]

MaxDetectRows == 2

DetectEmails ==
    { JohnDoeEmail, <<>>, <<"n","o","t","-","a","n","-","e","m","a","i","l">>, <<"a","@","b">>, <<"@","x",".","c","o","m">>, <<"a","@","b","@","c",".","d">>, <<"a"," ","b","@","c",".","d">>,
      <<"a","@",".","c">>, <<"a","@","b",".">> }

DetectRows ==
    { [BaseRow EXCEPT !["first_name"] = f, !["last_name"] = l, !["email"] = e] :
        f \in { <<"J","o","h","n">>, <<>> }, l \in { <<"D","o","e">>, <<"N","A">> }, e \in DetectEmails }

DetectTables == UNION { [1..n -> DetectRows] : n \in 0..MaxDetectRows }

DetInit ==
    /\ CleanIdle
    /\ MaskIdle
    /\ ValIdle
    /\ PipeIdle
    /\ dfile \in DetectTables
    /\ ddf = <<>>
    /\ dpc = "start"
    /\ dresult = NoResult

\* main.py line 120: the table is read
DetLoad ==
    /\ dpc = "start"
    /\ ddf' = read_csv(dfile)
    /\ dpc' = "loaded"
    /\ UNCHANGED <<dfile, dresult>>
    /\ UNCHANGED <<cleanVars, maskVars, valVars, pipeVars>>

\* detect_pii.py lines 11-59: the categories are computed on copies
Detect ==
    /\ dpc = "loaded"
    /\ dresult' = detect_pii(ddf, [c \in ColSet |-> ColumnKind(dfile, c)])
    /\ dpc' = "returned"
    /\ UNCHANGED <<dfile, ddf>>
    /\ UNCHANGED <<cleanVars, maskVars, valVars, pipeVars>>

DetNext == DetLoad \/ Detect

SpecDetect == DetInit /\ [][DetNext]_vars

(***************************************************************************)
(* C15: detect_pii puts a row in full_identity exactly when its first_name *)
(* and last_name are both non-null and its email matches the email         *)
(* pattern; every full_identity row is an emails row, so                   *)
(* full_identity_found <= emails_found; and the table detect_pii was given *)
(* is the table that was read, unchanged.                                  *)
(***************************************************************************)
C15_FullIdentityIffNamesAndEmail ==
    (dpc = "returned") =>
        LET identity == Indexes(dresult.details.full_identity)
            emails   == Indexes(dresult.details.emails)
        IN  /\ \A i \in 1..Len(dfile) :
                  (i - 1 \in identity) <=>
                      /\ dfile[i]["first_name"] \notin NaValues
                      /\ dfile[i]["last_name"] \notin NaValues
                      /\ dfile[i]["email"] \notin NaValues
                      /\ EmailRegexMatch(dfile[i]["email"])
            /\ identity \subseteq emails
            /\ dresult.summary.full_identity_found = Cardinality(identity)
            /\ dresult.summary.emails_found = Cardinality(emails)
            /\ dresult.summary.full_identity_found <= dresult.summary.emails_found
            /\ ddf = read_csv(dfile)

\* two rows with a matching email, one of them without a last name: one
\* full_identity row, two emails rows
C15_Witness ==
    /\ dpc = "returned"
    /\ Len(ddf) = 2
    /\ ddf[1].row["last_name"] = NULL
    /\ dresult.summary.emails_found = 2
    /\ dresult.summary.full_identity_found = 1
    /\ Indexes(dresult.details.full_identity) = {1}

\* ----------------------------- pipeline runs ------------------------------
(***************************************************************************)
(* run_pipeline (main.py, lines 62-205).  The Cleaner and the Validator    *)
(* run as above, on the input file and on the cleaned file; the stages     *)
(* that read or write a file may raise.                                    *)
(***************************************************************************)
\* mask_dataset(input_path, output_path), lines 99-136: the table written to
\* the masked file
mask_dataset(file) ==
    [i \in 1..Len(file) |->
        [c \in ColSet |->
            LET kind == ColumnKind(file, c)
                cell == ReadCsvCell(file[i][c], kind)
                value == IF cell = NULL THEN NULL ELSE PyText(cell, kind)
                out  == IF c \in MaskedColumns THEN MaskColumn(c, value) ELSE value
            IN  IF out = NULL THEN <<>> ELSE out]]

StageOrder == <<"load", "clean", "validate", "detect", "mask">>

\* lines 192-203: the report the except branch writes
CrashReport(stage) == [k |-> "crash", status |-> "FAILED", stage |-> stage]

\* total_pii_found, lines 128-131
TotalPii(summary) ==
    summary.emails_found + summary.phones_found + summary.full_identity_found
        + summary.addresses_found + summary.dob_found

\* lines 159-186: the report of a run in which no stage raised
SummaryReport(status, verdict, rows_in, rows_out, summary) ==
    [k |-> "summary",
     status |-> status,
     validation |-> IF verdict THEN "PASS" ELSE "FAIL",
     input_rows |-> rows_in,
     output_rows |-> rows_out,
     pii_found |-> TotalPii(summary),
     pii_risk |-> IF rows_out = rows_in THEN "MITIGATED" ELSE "CHECK REQUIRED"]

MaxPipeRows == 2

PipeTables == UNION { TablesOfLength(n) : n \in 0..MaxPipeRows }

PipeInit ==
    /\ MaskIdle
    /\ ValIdle
    /\ DetIdle
    /\ raw \in PipeTables
    /\ pc = "idle"
    /\ df = <<>>
    /\ dtypes = [c \in ColSet |-> "object"]
    /\ initial_count = 0
    /\ pos = 0
    /\ cleaned_rows = <<>>
    /\ flagged_rows = <<>>
    /\ output = NoFile
    /\ result = NoResult
    /\ ppc = "load"
    /\ stages = <<>>
    /\ input_rows = 0
    /\ overall_status = "unset"
    /\ pii_summary = NoResult
    /\ masked = NoFile
    /\ report = NoResult

\* lines 71-72: stage 1 reads the input file and counts its rows
PipeLoad ==
    /\ ppc = "load"
    /\ stages' = Append(stages, "load")
    /\ input_rows' = Len(raw)
    /\ ppc' = "clean"
    /\ UNCHANGED <<overall_status, pii_summary, masked, report>>
    /\ UNCHANGED <<cleanVars, maskVars, valVars, detVars>>

\* line 71 raises and the stages go on after the except branch wrote its report
PipeLoadFails_and_goes_on ==
    /\ ppc = "load"
    /\ stages' = Append(stages, "load")
    /\ report' = CrashReport("load")
    /\ ppc' = "clean"
    /\ UNCHANGED <<input_rows, overall_status, pii_summary, masked>>
    /\ UNCHANGED <<cleanVars, maskVars, valVars, detVars>>

\* line 71 raises (the input file cannot be read): lines 192-205
PipeLoadFails ==
    /\ ppc = "load"
    /\ stages' = Append(stages, "load")
    /\ report' = CrashReport("load")
    /\ ppc' = "done"
    /\ UNCHANGED <<input_rows, overall_status, pii_summary, masked>>
    /\ UNCHANGED <<cleanVars, maskVars, valVars, detVars>>

\* line 84: clean_dataset is called on the input file
PipeClean ==
    /\ ppc = "clean"
    /\ pc = "idle"
    /\ pc' = "start"
    /\ stages' = Append(stages, "clean")
    /\ UNCHANGED <<raw, df, dtypes, initial_count, pos, cleaned_rows, flagged_rows,
                   output, result>>
    /\ UNCHANGED <<ppc, input_rows, overall_status, pii_summary, masked, report>>
    /\ UNCHANGED <<maskVars, valVars, detVars>>

\* lines 84-93: clean_dataset returned its counts
PipeCleaned ==
    /\ ppc = "clean"
    /\ pc = "returned"
    /\ ppc' = "validate"
    /\ UNCHANGED <<stages, input_rows, overall_status, pii_summary, masked, report>>
    /\ UNCHANGED <<cleanVars, maskVars, valVars, detVars>>

\* line 84 raises (unreadable input, no accepted row, write failure, or an
\* exception of the re-validation loop): lines 192-205
PipeCleanFails ==
    /\ ppc = "clean"
    /\ pc \in {"failed", "crashed"}
    /\ report' = CrashReport("clean")
    /\ ppc' = "done"
    /\ UNCHANGED <<stages, input_rows, overall_status, pii_summary, masked>>
    /\ UNCHANGED <<cleanVars, maskVars, valVars, detVars>>

\* line 98: validate_dataset is called on the cleaned file
PipeValidate ==
    /\ ppc = "validate"
    /\ vpc = "idle"
    /\ vfile' = output.rows
    /\ vpc' = "start"
    /\ stages' = Append(stages, "validate")
    /\ UNCHANGED <<vdf, vdtypes, vpos, seen_ids, failed_rows, vresult>>
    /\ UNCHANGED <<ppc, input_rows, overall_status, pii_summary, masked, report>>
    /\ UNCHANGED <<cleanVars, maskVars, detVars>>

\* line 98 raises (the cleaned file cannot be read): lines 192-205
PipeValidateFails ==
    /\ ppc = "validate"
    /\ vpc = "idle"
    /\ stages' = Append(stages, "validate")
    /\ report' = CrashReport("validate")
    /\ ppc' = "done"
    /\ UNCHANGED <<input_rows, overall_status, pii_summary, masked>>
    /\ UNCHANGED <<cleanVars, maskVars, valVars, detVars>>

\* lines 98-115 with the run ended on a failing verdict
PipeValidated_stops_on_fail ==
    /\ ppc = "validate"
    /\ vpc = "returned"
    /\ overall_status' = IF vresult.passed THEN "SUCCESS" ELSE "FAILED"
    /\ IF vresult.passed
       THEN ppc' = "detect" /\ UNCHANGED report
       ELSE /\ ppc' = "done"
            /\ report' = [k |-> "summary", status |-> "FAILED", validation |-> "FAIL",
                          input_rows |-> input_rows, output_rows |-> 0,
                          pii_found |-> 0, pii_risk |-> "CHECK REQUIRED"]
    /\ UNCHANGED <<stages, input_rows, pii_summary, masked>>
    /\ UNCHANGED <<cleanVars, maskVars, valVars, detVars>>

\* lines 98-115: the verdict sets the status; the run goes on either way
PipeValidated ==
    /\ ppc = "validate"
    /\ vpc = "returned"
    /\ overall_status' = IF vresult.passed THEN "SUCCESS" ELSE "FAILED"
    /\ ppc' = "detect"
    /\ UNCHANGED <<stages, input_rows, pii_summary, masked, report>>
    /\ UNCHANGED <<cleanVars, maskVars, valVars, detVars>>

\* lines 120-133: the cleaned file is read and detect_pii is called
PipeDetect ==
    /\ ppc = "detect"
    /\ stages' = Append(stages, "detect")
    /\ pii_summary' = detect_pii(read_csv(output.rows),
                                 [c \in ColSet |-> ColumnKind(output.rows, c)]).summary
    /\ ppc' = "mask"
    /\ UNCHANGED <<input_rows, overall_status, masked, report>>
    /\ UNCHANGED <<cleanVars, maskVars, valVars, detVars>>

\* line 120 raises (the cleaned file cannot be read): lines 192-205
PipeDetectFails ==
    /\ ppc = "detect"
    /\ stages' = Append(stages, "detect")
    /\ report' = CrashReport("detect")
    /\ ppc' = "done"
    /\ UNCHANGED <<input_rows, overall_status, pii_summary, masked>>
    /\ UNCHANGED <<cleanVars, maskVars, valVars, detVars>>

\* lines 138-190: mask_dataset writes the masked file and the report is written
PipeMask ==
    /\ ppc = "mask"
    /\ stages' = Append(stages, "mask")
    /\ masked' = [k |-> "file", rows |-> mask_dataset(output.rows)]
    /\ report' = SummaryReport(overall_status, vresult.passed, input_rows,
                               Len(output.rows), pii_summary)
    /\ ppc' = "done"
    /\ UNCHANGED <<input_rows, overall_status, pii_summary>>
    /\ UNCHANGED <<cleanVars, maskVars, valVars, detVars>>

\* line 138 raises (the cleaned file cannot be read or the masked file cannot
\* be written): lines 192-205
PipeMaskFails ==
    /\ ppc = "mask"
    /\ stages' = Append(stages, "mask")
    /\ report' = CrashReport("mask")
    /\ ppc' = "done"
    /\ UNCHANGED <<input_rows, overall_status, pii_summary, masked>>
    /\ UNCHANGED <<cleanVars, maskVars, valVars, detVars>>

PipeNext ==
    \/ PipeLoad
    \/ PipeLoadFails
    \/ PipeClean
    \/ (ppc = "clean" /\ CleanNext)
    \/ PipeCleaned
    \/ PipeCleanFails
    \/ PipeValidate
    \/ PipeValidateFails
    \/ (ppc = "validate" /\ ValNext)
    \/ PipeValidated
    \/ PipeDetect
    \/ PipeDetectFails
    \/ PipeMask
    \/ PipeMaskFails

SpecPipeline == PipeInit /\ [][PipeNext]_vars

(***************************************************************************)
(* C14: in run_pipeline the stages are entered in the order load, clean,   *)
(* validate, detect, mask, each only after the one before it has           *)
(* completed; when a stage raises, the run ends there: the stage that      *)
(* raised is the last one entered, the report status is FAILED, no masked  *)
(* file is written, and nothing more happens after the report (no resume). *)
(***************************************************************************)
C14_StagesInOrderAbortOnRaise ==
    /\ [] /\ Len(stages) <= Len(StageOrder)
          /\ stages = SubSeq(StageOrder, 1, Len(stages))
          /\ (Len(stages) >= 3) => pc = "returned"
          /\ (Len(stages) >= 4) => vpc = "returned"
          /\ (Len(stages) >= 5) => pii_summary # NoResult
          /\ (pc \in {"failed", "crashed"}) =>
                (vpc = "idle" /\ pii_summary = NoResult /\ masked = NoFile)
          /\ (report.k = "crash") =>
                /\ ppc = "done"
                /\ report.status = "FAILED"
                /\ stages # <<>> /\ stages[Len(stages)] = report.stage
                /\ masked = NoFile
          /\ (report # NoResult) => ppc = "done"
    /\ [][ppc # "done"]_vars

\* the Cleaner accepted no row: the run ended in the clean stage with a FAILED
\* report, and validation, detection and masking never ran
C14_Witness ==
    /\ ppc = "done"
    /\ report = CrashReport("clean")
    /\ pc = "failed"
    /\ Len(df) > 0 /\ pos = Len(df) /\ Len(cleaned_rows) = 0
    /\ stages = <<"load", "clean">>
    /\ vpc = "idle"
    /\ masked = NoFile

C18_SuccessWitness ==
    /\ ppc = "done"
    /\ report.k = "summary"
    /\ report.status = "SUCCESS"
    /\ report.pii_risk = "CHECK REQUIRED"

\* ------------------------------ masker runs ------------------------------
(***************************************************************************)
(* The Masker on one cell: mask_dataset applied to a table, then applied   *)
(* again to the table it wrote.                                            *)
(***************************************************************************)
MaxMaskLen == 2

MaskAlphabet == {"J", "o", " ", "*", "@", ".", "-", "5"}

\* every text over MaskAlphabet of length at most n
RECURSIVE TextsUpTo(_)
TextsUpTo(n) ==
    IF n = 0 THEN {<<>>}
    ELSE LET shorter == TextsUpTo(n - 1)
         IN  shorter \cup { Append(t, c) : t \in shorter, c \in MaskAlphabet }

SampleCells(col) ==
    CASE col \in {"first_name", "last_name"} ->
            { Unknown, JohnDoe, <<"J","o","h","n">>, <<"J","*","*","*">>,
              <<"J","o","h","n"," "," ","D","o","e">>, <<" ","J","o","h","n">> }
      [] col = "email" ->
            { NoEmail, JohnDoeEmail, <<"j","*","*","*","@","g","m","a","i","l",".","c","o","m">>,
              <<"@","x",".","c","o","m">>, <<"a","@","b","@","c",".","d">> }
      [] col = "phone" ->
            { ZeroPhone, Phone5551234567, <<"*","*","*","-","*","*","*","-","4","5","6","7">>,
              Phone5551234567 \o <<"8">>, Phone5551234567 \o <<"-","9","9">>,
              <<"5","5","5","1","2","3","4","5","6","7">> }
      [] col = "address" ->
            { AddressNotProvided, MainStreet, MaskedAddress }
      [] col = "date_of_birth" ->
            { Dob19850315, <<"1","9","8","5","-","*","*","-","*","*">>,
              <<"1","9","0","0","-","0","1","-","0","1">>,
              Dob19850315 \o <<" ","0","0",":","0","0">>,
              <<"0","3","/","1","5","/","1","9","8","5">> }

\* the cells a column of the table read by mask_dataset may hold
MaskInputs(col) == {NULL} \cup TextsUpTo(MaxMaskLen) \cup SampleCells(col)

MaskInit ==
    /\ CleanIdle
    /\ ValIdle
    /\ DetIdle
    /\ PipeIdle
    /\ mcol \in MaskedColumns
    /\ mval \in MaskInputs(mcol)
    /\ once = NULL
    /\ twice = NULL
    /\ mpc = "in"

\* mask_dataset on the cleaned table
MaskOnce ==
    /\ mpc = "in"
    /\ once' = MaskColumn(mcol, mval)
    /\ mpc' = "once"
    /\ UNCHANGED <<mcol, mval, twice>>
    /\ UNCHANGED <<cleanVars, valVars, detVars, pipeVars>>

\* mask_dataset on the table the first run wrote
MaskTwice ==
    /\ mpc = "once"
    /\ twice' = MaskColumn(mcol, once)
    /\ mpc' = "twice"
    /\ UNCHANGED <<mcol, mval, once>>
    /\ UNCHANGED <<cleanVars, valVars, detVars, pipeVars>>

MaskNext == MaskOnce \/ MaskTwice

SpecMask == MaskInit /\ [][MaskNext]_vars

(***************************************************************************)
(* C9 (as stated): re-applying the Masker's column transforms to their own *)
(* output is not a no-op: once a table has been masked and masked again,   *)
(* there is some non-placeholder masked value that the second application  *)
(* of its column's transform changes.                                      *)
(***************************************************************************)
C9_RemaskingChangesSomeValue ==
    (mpc = "twice" /\ once # mval /\ once # PlaceholderOf(mcol)) =>
        \E col \in MaskedColumns : \E v \in MaskInputs(col) :
            LET m == MaskColumn(col, v)
            IN  /\ m # PlaceholderOf(col)
                /\ MaskColumn(col, m) # m

(***************************************************************************)
(* C9 (amended): every column transform of the Masker is idempotent: the   *)
(* second application returns the output of the first unchanged, for       *)
(* masked values as well as for placeholders.                              *)
(***************************************************************************)
C9_MaskIdempotent == (mpc = "twice") => (twice = once)

\* a name that the first application really masked has been masked twice
C9_Witness ==
    /\ mpc = "twice"
    /\ mcol = "first_name"
    /\ mval = JohnDoe
    /\ once = <<"J","*","*","*"," ","D","*","*","*">>
    /\ twice = once

(***************************************************************************)
(* C10: every mask function returns the Cleaner's placeholder of its       *)
(* column unchanged (and mask_dob returns the null unchanged), however     *)
(* many times it is applied.                                               *)
(***************************************************************************)
C10_PlaceholderPassesThrough ==
    (mpc # "in" /\ mval = PlaceholderOf(mcol)) =>
        /\ once = mval
        /\ (mpc = "twice" => twice = mval)

\* the name placeholder went through the transform twice
C10_Witness ==
    /\ mpc = "twice"
    /\ mcol = "last_name"
    /\ mval = Unknown
    /\ twice = Unknown


\* a text that is exactly in the form DDD-DDD-DDDD
IsNormalizedPhone(s) == Len(s) = Len(PhonePattern) /\ MatchPrefix(s, PhonePattern)

(***************************************************************************)
(* C11: mask_phone masks a value only when it is exactly in the form       *)
(* DDD-DDD-DDDD, returning "***-***-" followed by the last group of four   *)
(* digits; every other non-null phone, one that begins with such a form    *)
(* and has more characters after it included, is returned unchanged.       *)
(***************************************************************************)
C11_MasksExactFormOnly ==
    (mpc # "in" /\ mcol = "phone" /\ mval # NULL) =>
        /\ (IsNormalizedPhone(mval) /\ mval # ZeroPhone) =>
              once = <<"*","*","*","-","*","*","*","-">> \o Slice(mval, 9, 12)
        /\ ~IsNormalizedPhone(mval) => once = mval
============================================================================
